---- MODULE Spec2Model ----
(***************************************************************************)
(* Model of the text-analysis server (leprof06/serveur-analyse-texte-node). *)
(*                                                                         *)
(* Part 1: the content evaluation engine, evaluateAnswer(userText,         *)
(* evalCfg, lang), run rule by rule in the order of the source.            *)
(* Part 2: the POST /analyse-text handler with rubricAggregate, one        *)
(* action per stretch of code between two awaited external calls.          *)
(* Part 3: rubricAggregate called directly.                                *)
(*                                                                         *)
(* Abstractions.  Strings are not modelled character by character: the     *)
(* text enters the engine only through what the primitives observe of it   *)
(* (similarity100's score, countKeywords' found counts, the token count,   *)
(* hasVerb's answer, and the positions at which each regular expression    *)
(* matches).  Arithmetic is exact: Math.round(n/d) is Round(n, d).  The    *)
(* one sum of products of doubles (the weighted total of rubricAggregate)  *)
(* is exact except on an exact half, where the accumulated error of the    *)
(* doubles decides the rounding: RoundDouble takes that outcome as input.  *)
(***************************************************************************)
EXTENDS Integers, Sequences, FiniteSets, TLC

VARIABLES
    cfg,        \* the evalCfg object handed to evaluateAnswer
    txt,        \* what the primitives observe of userText (and lang)
    lastIndex,  \* lastIndex of every entry of cfg.regex (kept by RegExp objects)
    atCall,     \* history: lastIndex as it was when the running call was made
    todo,       \* calls of evaluateAnswer(userText, cfg, lang) the caller still makes
    pc,         \* position inside evaluateAnswer
    points,     \* let points
    maxPoints,  \* let maxPoints
    reasons,    \* const reasons = []
    outcome,    \* "none" | "returned" | "threw" : how the last call ended
    result,     \* the value returned by the last call
    results,    \* the outcomes of all completed calls, oldest first
    env,        \* process.env: which external services are configured
    rubricCfg,  \* the module-level rubric configuration of index.js
    req,        \* per request: req.body
    hpc,        \* per request: position inside the handler
    loc,        \* per request: the handler's local variables
    resp,       \* per request: the responses sent with res.json, oldest first
    replies,    \* history, per request: what the external collaborators replied
    menu,       \* the requests clients send and the replies the collaborators give
    rub         \* a call of rubricAggregate made directly: arguments, position, result

evalVars == <<cfg, txt, lastIndex, atCall, todo, pc, points, maxPoints, reasons, outcome, result, results>>

handlerVars == <<env, rubricCfg, req, hpc, loc, resp, replies, menu, rub>>

vars == <<evalVars, handlerVars>>

----------------------------------------------------------------------------
(* Bounds of the model. *)

MaxKw == 2        \* longest keyword list
MaxRegex == 2     \* longest regex list
TextLen == 1      \* positions of userText at which a pattern can match
MaxCalls == 2     \* consecutive calls with the same arguments

----------------------------------------------------------------------------
(* Arithmetic helpers. *)

Min(a, b) == IF a <= b THEN a ELSE b

Max(a, b) == IF a >= b THEN a ELSE b

\* Math.round(n / d) for d > 0: the nearest integer, halves rounded up.
Round(n, d) == (2 * n + d) \div (2 * d)

MinOf(S) == CHOOSE x \in S : \A y \in S : x <= y

\* Math.round(x) for x the double sum of terms score * (weight / 100), n / d
\* being its exact value.  The doubles weight / 100 are inexact: off an exact
\* half the error is far too small to matter; on an exact half the sum lands
\* on it or just under it (18 * 0.15 + 10 * 0.2 + 4 * 0.2 gives
\* 5.499999999999999), and up tells which.
RoundDouble(n, d, up) ==
    IF 2 * (n % d) = d /\ ~up THEN n \div d ELSE Round(n, d)

----------------------------------------------------------------------------
(* Defaults of the destructuring in evaluateAnswer. *)

DefaultThreshold == 70

DefaultAnyAtLeast == 1

DefaultWeights ==
    [similarity |-> 60, all |-> 25, any |-> 15, regex |-> 20,
     length |-> 10, verb |-> 10, penaltyBanned |-> 30]

\* evalCfg = {} : every field takes its default, no rule is active.
EmptyCfg ==
    [expectedAnswer |-> FALSE,
     similarityThreshold |-> DefaultThreshold,
     keywords |-> [all |-> 0, any |-> 0, banned |-> 0],
     anyAtLeast |-> DefaultAnyAtLeast,
     regex |-> << >>,
     minWords |-> 0,
     maxWords |-> 0,
     requireVerb |-> FALSE,
     weights |-> DefaultWeights]

\* What the primitives observe of a text on which nothing is found.
BlankTxt ==
    [sim |-> 0, found |-> [all |-> 0, any |-> 0, banned |-> 0],
     wordCount |-> 1, hasVerb |-> FALSE]

EmptyFrame == [points |-> 0, maxPoints |-> 0, reasons |-> << >>]

----------------------------------------------------------------------------
(* The seven rules of evaluateAnswer.  Each takes the running frame          *)
(* [points, maxPoints, reasons] and returns the frame after the rule.        *)

\* 1) Similarity (only when expectedAnswer is set).
SimilarityRule(f, c, t) ==
    IF c.expectedAnswer
    THEN LET sim == t.sim
             w   == c.weights.similarity
             pts == Round(sim * w, 100)
         IN  [points    |-> f.points + pts,
              maxPoints |-> f.maxPoints + w,
              reasons   |-> Append(f.reasons,
                  [rule |-> "similarity", value |-> sim, weight |-> w,
                   points |-> pts, threshold |-> c.similarityThreshold])]
    ELSE f

\* A plausible slip: the ratio counts the missing keywords instead of the found ones.
AllRuleCountsMissing(f, c, t) ==
    IF c.keywords.all > 0
    THEN LET found == t.found.all
             total == c.keywords.all
             w     == c.weights.all
             pts   == Round((total - found) * w, total)
         IN  [points    |-> f.points + pts,
              maxPoints |-> f.maxPoints + w,
              reasons   |-> Append(f.reasons,
                  [rule |-> "keywords_all", found |-> found, total |-> total,
                   pct |-> Round(found * 100, total), weight |-> w, points |-> pts])]
    ELSE f

\* 2) Required keywords: points proportional to found / total.
AllRule(f, c, t) ==
    IF c.keywords.all > 0
    THEN LET found == t.found.all
             total == c.keywords.all
             w     == c.weights.all
             pts   == Round(found * w, total)
         IN  [points    |-> f.points + pts,
              maxPoints |-> f.maxPoints + w,
              reasons   |-> Append(f.reasons,
                  [rule |-> "keywords_all", found |-> found, total |-> total,
                   pct |-> Round(found * 100, total), weight |-> w, points |-> pts])]
    ELSE f

\* 3) Optional keywords: all or nothing, found >= max(1, anyAtLeast).
AnyRule(f, c, t) ==
    IF c.keywords.any > 0
    THEN LET found == t.found.any
             ok    == found >= Max(1, c.anyAtLeast)
             w     == c.weights.any
             pts   == IF ok THEN w ELSE 0
         IN  [points    |-> f.points + pts,
              maxPoints |-> f.maxPoints + w,
              reasons   |-> Append(f.reasons,
                  [rule |-> "keywords_any", found |-> found, total |-> c.keywords.any,
                   required |-> c.anyAtLeast, weight |-> w, points |-> pts])]
    ELSE f

\* A plausible slip: the full penalty is subtracted whatever was accumulated.
BannedPenaltyUncapped(pts, c) == c.weights.penaltyBanned

\* The penalty of the banned rule: const pen = Math.min(points, weights.penaltyBanned || 0).
BannedPenalty(pts, c) == Min(pts, c.weights.penaltyBanned)

\* A plausible slip: nothing is recorded when no banned keyword is found.
BannedRuleSilentWhenClean(f, c, t) ==
    IF c.keywords.banned > 0 /\ t.found.banned > 0
    THEN LET pen == BannedPenalty(f.points, c)
         IN  [points    |-> f.points - pen,
              maxPoints |-> f.maxPoints,
              reasons   |-> Append(f.reasons,
                  [rule |-> "keywords_banned", found |-> t.found.banned,
                   penalty |-> pen])]
    ELSE f

\* 4) Banned keywords: a penalty, never part of maxPoints.
BannedRule(f, c, t) ==
    IF c.keywords.banned > 0
    THEN IF t.found.banned > 0
         THEN LET pen == BannedPenalty(f.points, c)
              IN  [points    |-> f.points - pen,
                   maxPoints |-> f.maxPoints,
                   reasons   |-> Append(f.reasons,
                       [rule |-> "keywords_banned", found |-> t.found.banned,
                        penalty |-> pen])]
         ELSE [f EXCEPT !.reasons =
                   Append(f.reasons, [rule |-> "keywords_banned", found |-> 0])]
    ELSE f

\* re.test(userText) for one entry r of cfg.regex whose lastIndex is idx.
\* r.hits are the positions of userText at which the pattern matches (each
\* match one position long).  A RegExp object with the g flag searches from
\* its lastIndex and keeps the end of the match there (0 after a failure);
\* any other expression searches from 0 and keeps nothing.
RegexTest(r, idx) ==
    IF r.kind = "RegExp" /\ r.global
    THEN LET cand == {h \in r.hits : h >= idx}
         IN  IF cand = {}
             THEN [match |-> FALSE, lastIndex |-> 0]
             ELSE [match |-> TRUE, lastIndex |-> MinOf(cand) + 1]
    ELSE [match |-> r.hits # {}, lastIndex |-> idx]

\* r instanceof RegExp ? r : new RegExp(r, "i") : throws on a malformed string.
CompileThrows(r) == r.kind = "string" /\ r.malformed

\* A plausible slip: every pattern is compiled before the first is tested, so
\* a malformed pattern throws wherever it stands in the list.
RegexLoopCompileFirst(i, li, c) ==
    LET n     == Len(c.regex)
        bad   == {k \in i..n : CompileThrows(c.regex[k])}
        fails == {k \in i..n : ~RegexTest(c.regex[k], li[k]).match}
        last  == IF fails = {} THEN n ELSE MinOf(fails)
    IN  IF bad # {}
        THEN [ok |-> TRUE, threw |-> TRUE, lastIndex |-> li, tested |-> i - 1]
        ELSE [ok |-> fails = {}, threw |-> FALSE,
              lastIndex |-> [k \in 1..n |->
                  IF k >= i /\ k <= last THEN RegexTest(c.regex[k], li[k]).lastIndex
                  ELSE li[k]],
              tested |-> last]

\* The for loop over cfg.regex from entry i on; li are the lastIndex values.
\* tested counts the entries on which test() was called.
RECURSIVE RegexLoop(_, _, _)
RegexLoop(i, li, c) ==
    IF i > Len(c.regex)
    THEN [ok |-> TRUE, threw |-> FALSE, lastIndex |-> li, tested |-> i - 1]
    ELSE IF CompileThrows(c.regex[i])
         THEN [ok |-> TRUE, threw |-> TRUE, lastIndex |-> li, tested |-> i - 1]
         ELSE LET r  == RegexTest(c.regex[i], li[i])
                  nl == [li EXCEPT ![i] = r.lastIndex]
              IN  IF ~r.match
                  THEN [ok |-> FALSE, threw |-> FALSE, lastIndex |-> nl, tested |-> i]
                  ELSE RegexLoop(i + 1, nl, c)

\* 5) Regex: every pattern must match; the frame after the rule (when the
\* loop does not throw).
RegexRule(f, c, loop) ==
    IF Len(c.regex) > 0
    THEN LET w   == c.weights.regex
             pts == IF loop.ok THEN w ELSE 0
         IN  [points    |-> f.points + pts,
              maxPoints |-> f.maxPoints + w,
              reasons   |-> Append(f.reasons,
                  [rule |-> "regex", ok |-> loop.ok, weight |-> w, points |-> pts])]
    ELSE f

\* A plausible slip: the weight enters the denominator only when the rule passes.
LengthRuleCountsOnlyPassed(f, c, t) ==
    IF c.minWords # 0 \/ c.maxWords # 0
    THEN LET okMin == IF c.minWords # 0 THEN t.wordCount >= c.minWords ELSE TRUE
             okMax == IF c.maxWords # 0 THEN t.wordCount <= c.maxWords ELSE TRUE
             w     == c.weights.length
             pts   == IF okMin /\ okMax THEN w ELSE 0
         IN  [points    |-> f.points + pts,
              maxPoints |-> f.maxPoints + pts,
              reasons   |-> Append(f.reasons,
                  [rule |-> "length", wordCount |-> t.wordCount,
                   minWords |-> c.minWords, maxWords |-> c.maxWords,
                   weight |-> w, points |-> pts])]
    ELSE f

\* 6) Length: active when minWords or maxWords is non-zero.
LengthRule(f, c, t) ==
    IF c.minWords # 0 \/ c.maxWords # 0
    THEN LET okMin == IF c.minWords # 0 THEN t.wordCount >= c.minWords ELSE TRUE
             okMax == IF c.maxWords # 0 THEN t.wordCount <= c.maxWords ELSE TRUE
             w     == c.weights.length
             pts   == IF okMin /\ okMax THEN w ELSE 0
         IN  [points    |-> f.points + pts,
              maxPoints |-> f.maxPoints + w,
              reasons   |-> Append(f.reasons,
                  [rule |-> "length", wordCount |-> t.wordCount,
                   minWords |-> c.minWords, maxWords |-> c.maxWords,
                   weight |-> w, points |-> pts])]
    ELSE f

\* 7) Required verb.
VerbRule(f, c, t) ==
    IF c.requireVerb
    THEN LET w   == c.weights.verb
             pts == IF t.hasVerb THEN w ELSE 0
         IN  [points    |-> f.points + pts,
              maxPoints |-> f.maxPoints + w,
              reasons   |-> Append(f.reasons,
                  [rule |-> "requireVerb", hasVerb |-> t.hasVerb,
                   weight |-> w, points |-> pts])]
    ELSE f

\* A plausible slip: the raw point total is returned, neither normalised by
\* maxPoints nor clamped.
ContentScoreRawPoints(pts, maxPts) == pts

\* A plausible slip: a configuration without any rule counts as passed.
ContentScoreNeutralPass(pts, maxPts) ==
    IF maxPts > 0 THEN Max(0, Min(100, Round(pts * 100, maxPts))) ELSE 100

\* const contentScore = maxPoints > 0 ? max(0, min(100, round(points/maxPoints*100))) : 0
ContentScore(pts, maxPts) ==
    IF maxPts > 0 THEN Max(0, Min(100, Round(pts * 100, maxPts))) ELSE 0

\* reasons.find(r => r.rule === name): the set holding the first such record.
FindReason(rs, name) ==
    LET idx == {i \in 1..Len(rs) : rs[i].rule = name}
    IN  IF idx = {} THEN {} ELSE {rs[MinOf(idx)]}

\* A plausible slip: the keyword and regex rules are required even when
\* expectedAnswer is set.
IsCorrectAlsoRules(c, rs) ==
    LET s        == FindReason(rs, "similarity")
        all      == FindReason(rs, "keywords_all")
        any      == FindReason(rs, "keywords_any")
        banned   == FindReason(rs, "keywords_banned")
        regexR   == FindReason(rs, "regex")
    IN  /\ \A r \in s : r.value >= c.similarityThreshold
        /\ \A r \in all : r.found = r.total
        /\ \A r \in any : r.points > 0
        /\ \A r \in banned : r.found = 0
        /\ \A r \in regexR : r.points > 0

\* A plausible slip: the banned keywords are left out of the verdict.
IsCorrectIgnoresBanned(c, rs) ==
    IF c.expectedAnswer
    THEN \A r \in FindReason(rs, "similarity") : r.value >= c.similarityThreshold
    ELSE /\ \A r \in FindReason(rs, "keywords_all") : r.found = r.total
         /\ \A r \in FindReason(rs, "keywords_any") : r.points > 0
         /\ \A r \in FindReason(rs, "regex") : r.points > 0

\* A plausible slip: without any record there is nothing to be correct about.
IsCorrectNeedsEvidence(c, rs) ==
    IF c.expectedAnswer
    THEN \A r \in FindReason(rs, "similarity") : r.value >= c.similarityThreshold
    ELSE /\ rs # << >>
         /\ \A r \in FindReason(rs, "keywords_all") : r.found = r.total
         /\ \A r \in FindReason(rs, "keywords_any") : r.points > 0
         /\ \A r \in FindReason(rs, "keywords_banned") : r.found = 0
         /\ \A r \in FindReason(rs, "regex") : r.points > 0

\* The verdict: similarity against the threshold when expectedAnswer is set,
\* otherwise all / any / banned / regex read back from reasons.
IsCorrect(c, rs) ==
    IF c.expectedAnswer
    THEN LET s   == FindReason(rs, "similarity")
             sim == IF s = {} THEN 0 ELSE (CHOOSE r \in s : TRUE).value
         IN  sim >= c.similarityThreshold
    ELSE LET all      == FindReason(rs, "keywords_all")
             any      == FindReason(rs, "keywords_any")
             banned   == FindReason(rs, "keywords_banned")
             regexR   == FindReason(rs, "regex")
             allOk    == \A r \in all : r.found = r.total
             anyOk    == \A r \in any : r.points > 0
             bannedOk == \A r \in banned : r.found = 0
             regexOk  == \A r \in regexR : r.points > 0
         IN  allOk /\ anyOk /\ bannedOk /\ regexOk

\* return { contentScore, isCorrect, reasons }
ReturnValue(f, c) ==
    [contentScore |-> ContentScore(f.points, f.maxPoints),
     isCorrect    |-> IsCorrect(c, f.reasons),
     reasons      |-> f.reasons]

\* The value of a call that has not returned one (none made yet, or it threw).
NoValue == [contentScore |-> 0, isCorrect |-> FALSE, reasons |-> << >>]

\* evaluateAnswer as a function of its arguments and of the lastIndex values
\* its RegExp objects hold at the call: how the call ends, what it returns
\* and the lastIndex values it leaves behind.
EvaluateAnswer(c, t, li) ==
    LET f4   == BannedRule(AnyRule(AllRule(SimilarityRule(EmptyFrame, c, t), c, t), c, t), c, t)
        loop == RegexLoop(1, li, c)
        f7   == VerbRule(LengthRule(RegexRule(f4, c, loop), c, t), c, t)
    IN  IF Len(c.regex) > 0 /\ loop.threw
        THEN [outcome |-> "threw", value |-> NoValue, lastIndex |-> loop.lastIndex]
        ELSE [outcome |-> "returned", value |-> ReturnValue(f7, c),
              lastIndex |-> IF Len(c.regex) > 0 THEN loop.lastIndex ELSE li]

----------------------------------------------------------------------------
(* The arguments the calls are made with. *)

ZeroWeights ==
    [similarity |-> 0, all |-> 0, any |-> 0, regex |-> 0,
     length |-> 0, verb |-> 0, penaltyBanned |-> 0]

\* Weights that make the roundings inexact and the penalty smaller than a rule's points.
OddWeights ==
    [similarity |-> 33, all |-> 7, any |-> 5, regex |-> 3,
     length |-> 1, verb |-> 2, penaltyBanned |-> 4]

WeightProfiles == {DefaultWeights, ZeroWeights, OddWeights}

\* expectedAnswer (set or not), the score similarity100 gives, the threshold.
SimCases ==
    {[exp |-> FALSE, sim |-> 0, thr |-> DefaultThreshold]}
    \cup {[exp |-> TRUE, sim |-> s, thr |-> DefaultThreshold] : s \in {0, 69, 70, 100}}
    \cup {[exp |-> TRUE, sim |-> 69, thr |-> 50]}

\* A keyword list of a given length and the number of its keywords found.
KwCases(max) == {kc \in [total : 0..max, found : 0..max] : kc.found <= kc.total}

\* keywords.any with anyAtLeast: inactive, none found, found but fewer than
\* required, found with anyAtLeast = 0 (max(1, 0) = 1).
AnyCases ==
    {[total |-> 0, found |-> 0, atLeast |-> DefaultAnyAtLeast],
     [total |-> 2, found |-> 0, atLeast |-> DefaultAnyAtLeast],
     [total |-> 2, found |-> 1, atLeast |-> 2],
     [total |-> 2, found |-> 1, atLeast |-> 0]}

BannedCases ==
    {[total |-> 0, found |-> 0], [total |-> 1, found |-> 0], [total |-> 1, found |-> 1]}

\* minWords, maxWords and the token count: inactive, inside, too short, too long.
LengthCases ==
    {[min |-> 0, max |-> 0, wc |-> 1],
     [min |-> 2, max |-> 0, wc |-> 2],
     [min |-> 2, max |-> 3, wc |-> 1],
     [min |-> 0, max |-> 3, wc |-> 4]}

VerbCases ==
    {[req |-> FALSE, hv |-> FALSE], [req |-> TRUE, hv |-> FALSE], [req |-> TRUE, hv |-> TRUE]}

Positions == 0..(TextLen - 1)

\* The entries a regex list can hold: a string (compiled with the i flag only,
\* possibly malformed) or a RegExp object (well formed, with or without g).
\* Without the g flag only whether the pattern matches somewhere matters.
RegexEntries ==
    {r \in [kind : {"string", "RegExp"}, malformed : BOOLEAN, global : BOOLEAN,
            hits : SUBSET Positions] :
        /\ r.kind = "string" => ~r.global
        /\ r.kind = "RegExp" => ~r.malformed
        /\ r.malformed => r.hits = {}
        /\ ~r.global => r.hits \in {{}, {0}}}

StrMatch == [kind |-> "string", malformed |-> FALSE, global |-> FALSE, hits |-> {0}]

StrNoMatch == [kind |-> "string", malformed |-> FALSE, global |-> FALSE, hits |-> {}]

RegexLists == UNION {[1..n -> RegexEntries] : n \in 0..MaxRegex}

ZeroIndex(c) == [i \in 1..Len(c.regex) |-> 0]

\* Scoring configurations: every rule inactive, passing or failing, the regex
\* list short and of strings.
InitScore ==
    \E s \in SimCases, a \in KwCases(MaxKw), y \in AnyCases, b \in BannedCases,
       r \in {<< >>, <<StrMatch>>, <<StrNoMatch>>}, l \in LengthCases,
       v \in VerbCases, w \in WeightProfiles :
        /\ cfg = [expectedAnswer |-> s.exp,
                  similarityThreshold |-> s.thr,
                  keywords |-> [all |-> a.total, any |-> y.total, banned |-> b.total],
                  anyAtLeast |-> y.atLeast,
                  regex |-> r,
                  minWords |-> l.min,
                  maxWords |-> l.max,
                  requireVerb |-> v.req,
                  weights |-> w]
        /\ txt = [sim |-> s.sim,
                  found |-> [all |-> a.found, any |-> y.found, banned |-> b.found],
                  wordCount |-> l.wc,
                  hasVerb |-> v.hv]
        /\ todo = 1

\* Regex configurations: every regex list, the other rules inactive but for
\* the required keywords; the caller repeats the call.
InitRegex ==
    \E r \in RegexLists, a \in {[total |-> 0, found |-> 0], [total |-> 2, found |-> 1]},
       w \in {DefaultWeights, ZeroWeights} :
        /\ cfg = [EmptyCfg EXCEPT !.regex = r, !.keywords.all = a.total, !.weights = w]
        /\ txt = [BlankTxt EXCEPT !.found.all = a.found]
        /\ todo = MaxCalls

\* evalCfg = {} (with any weights) on every text.
InitEmpty ==
    \E w \in WeightProfiles, s \in {0, 70, 100}, n \in 0..MaxKw, v \in BOOLEAN :
        /\ cfg = [EmptyCfg EXCEPT !.weights = w]
        /\ txt = [BlankTxt EXCEPT !.sim = s, !.wordCount = n, !.hasVerb = v]
        /\ todo = 1

InitEval ==
    /\ InitScore \/ InitRegex \/ InitEmpty
    /\ lastIndex = ZeroIndex(cfg)
    /\ atCall = lastIndex
    /\ pc = "idle"
    /\ points = 0
    /\ maxPoints = 0
    /\ reasons = << >>
    /\ outcome = "none"
    /\ result = NoValue
    /\ results = << >>

----------------------------------------------------------------------------
(* evaluateAnswer, one action per rule. *)

Frame == [points |-> points, maxPoints |-> maxPoints, reasons |-> reasons]

SetFrame(f) ==
    /\ points' = f.points
    /\ maxPoints' = f.maxPoints
    /\ reasons' = f.reasons

\* The caller calls evaluateAnswer(userText, cfg, lang) (again).
Call ==
    /\ pc \in {"idle", "done"}
    /\ todo > 0
    /\ todo' = todo - 1
    /\ pc' = "similarity"
    /\ SetFrame(EmptyFrame)
    /\ outcome' = "none"
    /\ result' = NoValue
    /\ atCall' = lastIndex
    /\ UNCHANGED <<cfg, txt, lastIndex, results>>
    /\ UNCHANGED handlerVars

Step(from, to, f) ==
    /\ pc = from
    /\ pc' = to
    /\ SetFrame(f)
    /\ UNCHANGED <<cfg, txt, lastIndex, atCall, todo, outcome, result, results>>
    /\ UNCHANGED handlerVars

Similarity == Step("similarity", "all", SimilarityRule(Frame, cfg, txt))

KeywordsAll == Step("all", "any", AllRule(Frame, cfg, txt))

KeywordsAny == Step("any", "banned", AnyRule(Frame, cfg, txt))

KeywordsBanned == Step("banned", "regex", BannedRule(Frame, cfg, txt))

\* The regex rule when no pattern fails to compile.
Regex ==
    LET loop == RegexLoop(1, lastIndex, cfg)
    IN  /\ pc = "regex"
        /\ ~(Len(cfg.regex) > 0 /\ loop.threw)
        /\ pc' = "length"
        /\ SetFrame(RegexRule(Frame, cfg, loop))
        /\ lastIndex' = IF Len(cfg.regex) > 0 THEN loop.lastIndex ELSE lastIndex
        /\ UNCHANGED <<cfg, txt, atCall, todo, outcome, result, results>>
        /\ UNCHANGED handlerVars

\* new RegExp(r, "i") throws: the exception leaves evaluateAnswer.
RegexThrows ==
    LET loop == RegexLoop(1, lastIndex, cfg)
    IN  /\ pc = "regex"
        /\ Len(cfg.regex) > 0 /\ loop.threw
        /\ pc' = "done"
        /\ outcome' = "threw"
        /\ result' = NoValue
        /\ results' = Append(results, [outcome |-> "threw", value |-> NoValue])
        /\ lastIndex' = loop.lastIndex
        /\ UNCHANGED <<cfg, txt, atCall, todo, points, maxPoints, reasons>>
        /\ UNCHANGED handlerVars

Length == Step("length", "verb", LengthRule(Frame, cfg, txt))

Verb == Step("verb", "score", VerbRule(Frame, cfg, txt))

\* The final score, the verdict and the return.
Return ==
    /\ pc = "score"
    /\ pc' = "done"
    /\ outcome' = "returned"
    /\ result' = ReturnValue(Frame, cfg)
    /\ results' = Append(results, [outcome |-> "returned", value |-> ReturnValue(Frame, cfg)])
    /\ UNCHANGED <<cfg, txt, lastIndex, atCall, todo, points, maxPoints, reasons>>
    /\ UNCHANGED handlerVars

----------------------------------------------------------------------------
(* The scoring helpers of the rubric. *)

GrammarPtsPerError == 6

SpellingPtsPerError == 5

\* /spelling|typographical/i.test(issueType) || /spelling/i.test(rule.id)
IsSpelling(m) == m.issueType \in {"misspelling", "typographical"} \/ m.idSpelling

\* A plausible slip: the penalty is not floored at 0.
GrammarSpellingScoresNoFloor(matches) ==
    LET spellingErr == Cardinality({i \in 1..Len(matches) : IsSpelling(matches[i])})
        grammarErr  == Cardinality({i \in 1..Len(matches) : ~IsSpelling(matches[i])})
    IN  [grammarScore  |-> 100 - grammarErr * GrammarPtsPerError,
         spellingScore |-> 100 - spellingErr * SpellingPtsPerError,
         grammarErr    |-> grammarErr,
         spellingErr   |-> spellingErr]

\* A plausible slip: only the findings typed "grammar" count as grammar
\* errors, the others that are not spelling are dropped.
GrammarSpellingScoresDropsOthers(matches) ==
    LET spellingErr == Cardinality({i \in 1..Len(matches) : IsSpelling(matches[i])})
        grammarErr  == Cardinality({i \in 1..Len(matches) :
                           ~IsSpelling(matches[i]) /\ matches[i].issueType = "grammar"})
    IN  [grammarScore  |-> Max(0, 100 - grammarErr * GrammarPtsPerError),
         spellingScore |-> Max(0, 100 - spellingErr * SpellingPtsPerError),
         grammarErr    |-> grammarErr,
         spellingErr   |-> spellingErr]

\* grammarSpellingScores(matches): a linear penalty per finding, floored at 0.
\* matches is a list here; an absent one is read as [] by MatchesOrEmpty.
GrammarSpellingScores(matches) ==
    LET spellingErr == Cardinality({i \in 1..Len(matches) : IsSpelling(matches[i])})
        grammarErr  == Cardinality({i \in 1..Len(matches) : ~IsSpelling(matches[i])})
    IN  [grammarScore  |-> Max(0, 100 - grammarErr * GrammarPtsPerError),
         spellingScore |-> Max(0, 100 - spellingErr * SpellingPtsPerError),
         grammarErr    |-> grammarErr,
         spellingErr   |-> spellingErr]

\* organizationMetrics(text, lang): the connectors are looked up for fr and
\* en only; any other language has an empty connector list.
OrganizationMetrics(text, lang) ==
    LET foundConn == IF lang = "fr" THEN text.connFr
                     ELSE IF lang = "en" THEN text.connEn ELSE 0
    IN  [paragraphs |-> text.paragraphs,
         paraScore  |-> Min(100, Round(text.paragraphs * 100, 3)),
         connScore  |-> Min(100, foundConn * 25)]

RepeatMin == 4

RepeatedTopCap == 5

RepeatPenaltyCap == 40

RepeatPenaltyEach == 10

\* The words (lower-case letters only) that name a property every object
\* inherits.  freq = {} is a plain object: for such a word freq[w] || 0 is
\* the inherited function, + 1 makes a string of it, and n >= 4 on that
\* string is false however often the word occurs.
InheritedKeys == {"constructor"}

\* lexisMetrics(text): type-token ratio and the penalty for repeated words.
\* repeatedTop lists the words occurring RepeatMin times or more, in the order
\* of their first occurrence (the key order of freq), cut to RepeatedTopCap.
LexisMetrics(tokens) ==
    LET total    == Len(tokens)
        words    == {tokens[i] : i \in 1..total}
        types    == Cardinality(words)
        freq(w)  == Cardinality({i \in 1..total : tokens[i] = w})
        first(w) == MinOf({i \in 1..total : tokens[i] = w})
        rep      == {w \in words : w \notin InheritedKeys /\ freq(w) >= RepeatMin}
        rank(w)  == Cardinality({v \in rep : first(v) < first(w)}) + 1
        top      == [k \in 1..Min(RepeatedTopCap, Cardinality(rep)) |->
                        CHOOSE w \in rep : rank(w) = k]
        ttrScore == IF total = 0 THEN 0
                    ELSE IF 2 * types >= total THEN 100
                    ELSE Round(200 * types, total)
        penalty  == Min(RepeatPenaltyCap, Len(top) * RepeatPenaltyEach)
    IN  [total |-> total, types |-> types,
         ttr |-> IF total = 0 THEN 0 ELSE Round(types * 1000, total),
         ttrScore |-> ttrScore, repeatedTop |-> top,
         lexisScore |-> Max(0, ttrScore - penalty)]

\* The fallback rubric of index.js.
DefaultRubric ==
    [writing_default |-> [weights |->
        [content |-> 35, organization |-> 15, lexis |-> 20, grammar |-> 20, mechanics |-> 10]]]

\* A plausible slip: the content pillar falls back on the string similarity
\* when the semantic score is 0.
RubricAggregateStringFallback(text, lang, ltMatches, expectedAnswer, rubric, sem, up) ==
    LET w        == rubric.weights
        gs       == GrammarSpellingScores(ltMatches)
        content  == IF expectedAnswer THEN (IF sem = 0 THEN text.sim ELSE sem) ELSE 0
        org      == OrganizationMetrics(text, lang)
        orgScore == Round(org.paraScore + org.connScore, 2)
        lex      == LexisMetrics(text.tokens)
        final100 == content * w.content + orgScore * w.organization
                    + lex.lexisScore * w.lexis + gs.grammarScore * w.grammar
                    + gs.spellingScore * w.mechanics
    IN  [overall   |-> RoundDouble(final100, 100, up),
         breakdown |-> [content |-> content, organization |-> orgScore,
                        lexis |-> lex.lexisScore, grammar |-> gs.grammarScore,
                        mechanics |-> gs.spellingScore],
         details   |-> [semantic |-> sem, organization |-> org, lexis |-> lex]]

\* A plausible slip: the weights are renormalised by their sum.
RubricAggregateRenormalised(text, lang, ltMatches, expectedAnswer, rubric, sem, up) ==
    LET w        == rubric.weights
        gs       == GrammarSpellingScores(ltMatches)
        content  == IF expectedAnswer THEN sem ELSE 0
        org      == OrganizationMetrics(text, lang)
        orgScore == Round(org.paraScore + org.connScore, 2)
        lex      == LexisMetrics(text.tokens)
        sum      == w.content + w.organization + w.lexis + w.grammar + w.mechanics
        final100 == content * w.content + orgScore * w.organization
                    + lex.lexisScore * w.lexis + gs.grammarScore * w.grammar
                    + gs.spellingScore * w.mechanics
    IN  [overall   |-> IF sum = 0 THEN 0 ELSE RoundDouble(final100, sum, up),
         breakdown |-> [content |-> content, organization |-> orgScore,
                        lexis |-> lex.lexisScore, grammar |-> gs.grammarScore,
                        mechanics |-> gs.spellingScore],
         details   |-> [semantic |-> sem, organization |-> org, lexis |-> lex]]

\* The value rubricAggregate returns once semanticSimilarity has resolved
\* with sem; up is the rounding of the double sum on an exact half.
RubricAggregate(text, lang, ltMatches, expectedAnswer, rubric, sem, up) ==
    LET w        == rubric.weights
        gs       == GrammarSpellingScores(ltMatches)
        content  == IF expectedAnswer THEN sem ELSE 0
        org      == OrganizationMetrics(text, lang)
        orgScore == Round(org.paraScore + org.connScore, 2)
        lex      == LexisMetrics(text.tokens)
        final100 == content * w.content + orgScore * w.organization
                    + lex.lexisScore * w.lexis + gs.grammarScore * w.grammar
                    + gs.spellingScore * w.mechanics
    IN  [overall   |-> RoundDouble(final100, 100, up),
         breakdown |-> [content |-> content, organization |-> orgScore,
                        lexis |-> lex.lexisScore, grammar |-> gs.grammarScore,
                        mechanics |-> gs.spellingScore],
         details   |-> [semantic |-> sem, organization |-> org, lexis |-> lex]]

----------------------------------------------------------------------------
(* The requests and the replies of the external services. *)

NumReqs == 2      \* connections to the server

Reqs == 1..NumReqs

\* An optional number: {} is null, {v} is the number v.
None == {}

Some(v) == {v}

\* What the handler observes of req.body.text.  ok: a non-empty string.
\* sim: similarityScore against expectedAnswer; the rest feeds the rubric.
PlainText ==
    [ok |-> TRUE, sim |-> 40, hasVerb |-> FALSE, paragraphs |-> 1,
     connFr |-> 0, connEn |-> 0, tokens |-> <<"a", "b">>]

RichText ==
    [ok |-> TRUE, sim |-> 90, hasVerb |-> TRUE, paragraphs |-> 3,
     connFr |-> 4, connEn |-> 1, tokens |-> <<"a", "a", "a", "a", "b">>]

MissingText == [PlainText EXCEPT !.ok = FALSE, !.tokens = << >>]

StrMalformed == [kind |-> "string", malformed |-> TRUE, global |-> FALSE, hits |-> {}]

\* req.body.eval: absent, {}, a keyword configuration, a configuration whose
\* regex list holds a malformed pattern.
EvalKinds == {"none", "empty", "keywords", "badRegex"}

EvalCfgOf(kind) ==
    IF kind = "keywords" THEN [EmptyCfg EXCEPT !.keywords.all = 2]
    ELSE IF kind = "badRegex" THEN [EmptyCfg EXCEPT !.regex = <<StrMalformed>>]
    ELSE EmptyCfg

EvalTxtOf(kind) ==
    IF kind = "keywords" THEN [BlankTxt EXCEPT !.found.all = 1] ELSE BlankTxt

Bodies ==
    {MissingBody \in [text : {MissingText}, expectedAnswer : {FALSE},
                      expectedLang : {""}, eval : {"none"}] : TRUE}
    \cup [text : {PlainText, RichText}, expectedAnswer : BOOLEAN,
          expectedLang : {"", "fr"}, eval : EvalKinds]

NoBody == [text |-> MissingText, expectedAnswer |-> FALSE, expectedLang |-> "", eval |-> "none"]

\* iso3ToIso2(franc(text)): a two-letter code, or "und".
DetectedLangs == {"fr", "en", "und"}

\* One LanguageTool finding: rule.issueType and whether rule.id holds "spelling".
Grammar == [issueType |-> "grammar", idSpelling |-> FALSE]

Misspelling == [issueType |-> "misspelling", idSpelling |-> FALSE]

\* data.matches of a LanguageTool reply.
MatchLists == {<< >>, <<Grammar>>, <<Misspelling, Grammar>>}

\* The scores the embeddings services give when they answer.
SemValues == {0, 80}

\* What an embeddings service answers: a score, or nothing usable (no vectors).
SemReplies == {None} \cup {Some(v) : v \in SemValues}

\* semanticSimilarity once axios.post has resolved: 0 when the reply holds
\* no pair of vectors, else the rounded cosine.
SemanticSimilarity(reply) == IF reply = None THEN 0 ELSE CHOOSE v \in reply : TRUE

\* Everything clients send and collaborators reply.  fp: how the double sum
\* of rubricAggregate rounds on an exact half; has429: whether the message
\* of a failed call holds "429".
FullMenu ==
    [bodies |-> Bodies, langs |-> DetectedLangs, matches |-> MatchLists,
     sem |-> SemReplies, fp |-> BOOLEAN, has429 |-> BOOLEAN]

NoLoc ==
    [lang |-> "und",
     fpUp |-> FALSE,
     ltData |-> [matches |-> << >>, error |-> FALSE],
     semanticScore |-> None,
     contentEval |-> NoValue,
     emb |-> "notCalled",
     rubric |-> "none"]

\* No collaborator has replied to the request yet.
NoReplies ==
    [lang |-> "und",
     fpUp |-> FALSE,
     lt  |-> [state |-> "none", matches |-> << >>, has429 |-> FALSE],
     hf  |-> [state |-> "none", score |-> None],
     emb |-> [state |-> "none", reply |-> None, has429 |-> FALSE]]

\* No direct call of rubricAggregate.
NoRubricCall ==
    [pc |-> "off",
     args |-> [text |-> MissingText, lang |-> "fr", ltMatches |-> None,
               expectedAnswer |-> FALSE, weights |-> DefaultRubric.writing_default.weights,
               up |-> FALSE],
     gs |-> None,
     reply |-> None,
     outcome |-> "none",
     value |-> None]

\* One client sends a request; the other connections stay silent ("off").
InitHandler ==
    /\ env \in [emb : BOOLEAN, hf : BOOLEAN]
    /\ rubricCfg = DefaultRubric
    /\ req = [r \in Reqs |-> NoBody]
    /\ hpc = [r \in Reqs |-> IF r = 1 THEN "idle" ELSE "off"]
    /\ loc = [r \in Reqs |-> NoLoc]
    /\ resp = [r \in Reqs |-> << >>]
    /\ replies = [r \in Reqs |-> NoReplies]
    /\ menu = FullMenu
    /\ rub = NoRubricCall

\* No request is handled while evaluateAnswer is studied on its own.
InitNoRequests ==
    /\ env = [emb |-> FALSE, hf |-> FALSE]
    /\ rubricCfg = DefaultRubric
    /\ req = [r \in Reqs |-> NoBody]
    /\ hpc = [r \in Reqs |-> "off"]
    /\ loc = [r \in Reqs |-> NoLoc]
    /\ resp = [r \in Reqs |-> << >>]
    /\ replies = [r \in Reqs |-> NoReplies]
    /\ menu = FullMenu
    /\ rub = NoRubricCall

\* evaluateAnswer is not called on its own while requests are handled.
InitNoCalls ==
    /\ cfg = EmptyCfg
    /\ txt = BlankTxt
    /\ lastIndex = << >>
    /\ atCall = << >>
    /\ todo = 0
    /\ pc = "idle"
    /\ points = 0
    /\ maxPoints = 0
    /\ reasons = << >>
    /\ outcome = "none"
    /\ result = NoValue
    /\ results = << >>

----------------------------------------------------------------------------
(* POST /analyse-text. *)

IssueCap == 100

\* A plausible slip: the language issue is pushed at the end of the list.
IssuesLanguageLast(body, l) ==
    LET m     == l.ltData.matches
        found == [i \in 1..Min(IssueCap, Len(m)) |->
                     IF m[i].issueType = "" THEN "grammar" ELSE m[i].issueType]
    IN  IF body.expectedLang # "" /\ body.expectedLang # l.lang
        THEN found \o <<"language">>
        ELSE found

\* issues: one entry per finding (at most IssueCap), its type the lower-cased
\* issueType ("grammar" when there is none); a "language" issue goes first
\* when expectedLang is given and differs from the detected language.
Issues(body, l) ==
    LET m     == l.ltData.matches
        found == [i \in 1..Min(IssueCap, Len(m)) |->
                     IF m[i].issueType = "" THEN "grammar" ELSE m[i].issueType]
    IN  IF body.expectedLang # "" /\ body.expectedLang # l.lang
        THEN <<"language">> \o found
        ELSE found

\* expectedLang || lang
LangOf(body, l) == IF body.expectedLang # "" THEN body.expectedLang ELSE l.lang

\* Step 9: contentEval stays the neutral default without req.body.eval;
\* otherwise evaluateAnswer runs on the parsed configuration (strings only,
\* so no RegExp object and no lastIndex is carried in).
ContentEval(body) ==
    IF body.eval = "none"
    THEN [outcome |-> "returned", value |-> NoValue, lastIndex |-> << >>]
    ELSE EvaluateAnswer(EvalCfgOf(body.eval), EvalTxtOf(body.eval),
                        ZeroIndex(EvalCfgOf(body.eval)))

\* The outer catch: 503 when the message holds "429", else 500.
ErrorResponse(has429) ==
    [status |-> IF has429 THEN 503 ELSE 500, error |-> "analysis_failed", hint |-> has429]

\* Step 11: res.json({...}).
SuccessResponse(body, l, rubricScore) ==
    LET gs == GrammarSpellingScores(l.ltData.matches)
    IN  [status |-> 200,
         lang |-> l.lang,
         grammarScore |-> gs.grammarScore,
         spellingScore |-> gs.spellingScore,
         similarityScore |-> IF body.expectedAnswer THEN body.text.sim ELSE 0,
         semanticScore |-> l.semanticScore,
         issues |-> Issues(body, l),
         content |-> l.contentEval,
         rubric |-> rubricScore,
         details |-> [grammarErrors |-> gs.grammarErr,
                      spellingErrors |-> gs.spellingErr,
                      ltError |-> l.ltData.error,
                      hasVerb |-> body.text.hasVerb]]

RubricOf(body, l, sem) ==
    RubricAggregate(body.text, LangOf(body, l), l.ltData.matches, body.expectedAnswer,
                    rubricCfg.writing_default, sem, l.fpUp)

\* semanticSimilarity (called by rubricAggregate) posts to the embeddings
\* service only with an expected answer and EMB_BASE_URL set; otherwise it
\* resolves with 0 at once.
NeedsEmbCall(body) == body.expectedAnswer /\ env.emb

\* Steps 5 to 11, from the moment semanticScore is known to the next awaited
\* external call or to the response: where the handler stands then, its
\* locals and what it sent.
AfterSemantic(body, l) ==
    LET ce == ContentEval(body)
        l2 == [l EXCEPT !.contentEval = ce.value]
        l3 == [l2 EXCEPT !.rubric = "resolved"]
    IN  IF ce.outcome = "threw"
        THEN [pc |-> "done", loc |-> l, send |-> <<ErrorResponse(FALSE)>>]
        ELSE IF NeedsEmbCall(body)
             THEN [pc |-> "awaitEmb", loc |-> l2, send |-> << >>]
             ELSE [pc |-> "done", loc |-> l3,
                   send |-> <<SuccessResponse(body, l3, RubricOf(body, l3, 0))>>]

\* semanticSimilarity100 posts to Hugging Face only with an expected answer
\* and HF_API_KEY set; otherwise semanticScore stays null.
NeedsHFCall(body) == body.expectedAnswer /\ env.hf

\* Steps 3 and 4, from the LanguageTool outcome on.
AfterLT(body, l) ==
    IF NeedsHFCall(body)
    THEN [pc |-> "awaitHF", loc |-> l, send |-> << >>]
    ELSE AfterSemantic(body, [l EXCEPT !.semanticScore = None])

\* A plausible slip: the handler's locals are kept in variables of the
\* module, shared by the requests in flight.
GotoSharedLocals(r, nx) ==
    /\ hpc' = [hpc EXCEPT ![r] = nx.pc]
    /\ loc' = [q \in Reqs |-> nx.loc]
    /\ resp' = [resp EXCEPT ![r] = resp[r] \o nx.send]
    /\ UNCHANGED <<env, rubricCfg, menu, rub>>
    /\ UNCHANGED evalVars

\* The handler of request r runs on to nx: its position, its locals, what
\* it sent.  Nothing else is written.
Goto(r, nx) ==
    /\ hpc' = [hpc EXCEPT ![r] = nx.pc]
    /\ loc' = [loc EXCEPT ![r] = nx.loc]
    /\ resp' = [resp EXCEPT ![r] = resp[r] \o nx.send]
    /\ UNCHANGED <<env, rubricCfg, menu, rub>>
    /\ UNCHANGED evalVars

\* A plausible slip: the 400 is sent without return, and the handler goes on.
ReceiveInvalidFallsThrough(r) ==
    /\ hpc[r] = "idle"
    /\ \E b \in menu.bodies :
        /\ ~b.text.ok
        /\ req' = [req EXCEPT ![r] = b]
        /\ Goto(r, [pc |-> "awaitLT", loc |-> loc[r],
                    send |-> <<[status |-> 400, error |-> "text_required"]>>])
    /\ UNCHANGED replies

\* A request without a usable text: 400 before any external call.
ReceiveInvalid(r) ==
    /\ hpc[r] = "idle"
    /\ \E b \in menu.bodies :
        /\ ~b.text.ok
        /\ req' = [req EXCEPT ![r] = b]
        /\ Goto(r, [pc |-> "done", loc |-> loc[r],
                    send |-> <<[status |-> 400, error |-> "text_required"]>>])
    /\ UNCHANGED replies

\* A request with a text: the language is detected and LanguageTool is called.
ReceiveValid(r) ==
    /\ hpc[r] = "idle"
    /\ \E b \in menu.bodies, lg \in menu.langs, up \in menu.fp :
        /\ b.text.ok
        /\ req' = [req EXCEPT ![r] = b]
        /\ replies' = [replies EXCEPT ![r].lang = lg, ![r].fpUp = up]
        /\ Goto(r, [pc |-> "awaitLT", loc |-> [loc[r] EXCEPT !.lang = lg, !.fpUp = up],
                    send |-> << >>])

\* checkWithLanguageTool resolves with data.
LTReturns(r) ==
    /\ hpc[r] = "awaitLT"
    /\ \E m \in menu.matches :
        /\ replies' = [replies EXCEPT ![r].lt =
                          [state |-> "ok", matches |-> m, has429 |-> FALSE]]
        /\ Goto(r, AfterLT(req[r], [loc[r] EXCEPT !.ltData = [matches |-> m, error |-> FALSE]]))
    /\ UNCHANGED req

\* checkWithLanguageTool rejects (network error, timeout, non-2xx status such
\* as the 429 of the rate-limited public service): whatever the error, the
\* inner catch substitutes { matches: [], _error }.
LTFails(r) ==
    /\ hpc[r] = "awaitLT"
    /\ \E has429 \in menu.has429 :
        replies' = [replies EXCEPT ![r].lt =
                       [state |-> "failed", matches |-> << >>, has429 |-> has429]]
    /\ Goto(r, AfterLT(req[r], [loc[r] EXCEPT !.ltData = [matches |-> << >>, error |-> TRUE]]))
    /\ UNCHANGED req

\* semanticSimilarity100 resolves: with a score, or with null when the call
\* failed (its own catch) or the reply held no vectors.
HFReturns(r) ==
    /\ hpc[r] = "awaitHF"
    /\ \E s \in menu.sem :
        /\ replies' = [replies EXCEPT ![r].hf = [state |-> "replied", score |-> s]]
        /\ Goto(r, AfterSemantic(req[r], [loc[r] EXCEPT !.semanticScore = s]))
    /\ UNCHANGED req

\* The embeddings service answers semanticSimilarity: rubricAggregate
\* resolves and the success response is sent.
EmbReturns(r) ==
    /\ hpc[r] = "awaitEmb"
    /\ \E rp \in menu.sem :
        LET l == [loc[r] EXCEPT !.emb = "ok", !.rubric = "resolved"]
        IN  /\ replies' = [replies EXCEPT ![r].emb =
                              [state |-> "ok", reply |-> rp, has429 |-> FALSE]]
            /\ Goto(r, [pc |-> "done", loc |-> l,
                        send |-> <<SuccessResponse(req[r], l,
                                       RubricOf(req[r], l, SemanticSimilarity(rp)))>>])
    /\ UNCHANGED req

\* The embeddings service is unavailable (network error, timeout, non-2xx
\* status): axios.post rejects inside semanticSimilarity, which has no catch,
\* so rubricAggregate rejects and the handler's outer catch answers.
EmbFails(r) ==
    /\ hpc[r] = "awaitEmb"
    /\ \E has429 \in menu.has429 :
        /\ replies' = [replies EXCEPT ![r].emb =
                          [state |-> "failed", reply |-> None, has429 |-> has429]]
        /\ Goto(r, [pc |-> "done",
                    loc |-> [loc[r] EXCEPT !.emb = "failed", !.rubric = "rejected"],
                    send |-> <<ErrorResponse(has429)>>])
    /\ UNCHANGED req

----------------------------------------------------------------------------
(* rubricAggregate called directly. *)

MaxFindings == 21     \* most findings of one category in a LanguageTool reply

Style == [issueType |-> "style", idSpelling |-> FALSE]

Typographical == [issueType |-> "typographical", idSpelling |-> FALSE]

\* A finding without issueType whose rule id holds "spelling".
SpellingRule == [issueType |-> "", idSpelling |-> TRUE]

\* A findings list with g findings of the grammar category followed by s of
\* the spelling category, of varied issue types.
Findings(g, s) ==
    [i \in 1..(g + s) |->
        IF i <= g THEN (IF i % 2 = 1 THEN Grammar ELSE Style)
        ELSE IF (i - g) % 3 = 1 THEN Misspelling
        ELSE IF (i - g) % 3 = 2 THEN Typographical
        ELSE SpellingRule]

\* for (const m of matches || []) : an absent list is read as the empty one.
MatchesOrEmpty(opt) == IF opt = None THEN << >> ELSE CHOOSE m \in opt : TRUE

\* Weights that do not sum to 100.
HeavyRubricWeights ==
    [content |-> 50, organization |-> 50, lexis |-> 50, grammar |-> 50, mechanics |-> 50]

ZeroRubricWeights ==
    [content |-> 0, organization |-> 0, lexis |-> 0, grammar |-> 0, mechanics |-> 0]

RubricWeightProfiles ==
    {DefaultRubric.writing_default.weights, HeavyRubricWeights, ZeroRubricWeights}

MaxRepeated == 6      \* most distinct words repeated in a text

Words == <<"a", "b", "c", "d", "e", "f", "g", "h", "i", "j", "k", "l">>

\* The words of a text in which k words occur n times each (taking turns),
\* followed by u words occurring once.
RepeatedTokens(k, n, u) ==
    [i \in 1..(k * n + u) |->
        IF i <= k * n THEN Words[((i - 1) % k) + 1] ELSE Words[k + (i - k * n)]]

\* The same words with "constructor" in the place of the first of them.
AboutConstructors(tokens) ==
    [i \in 1..Len(tokens) |-> IF tokens[i] = Words[1] THEN "constructor" ELSE tokens[i]]

\* Texts with up to MaxRepeated words occurring 3, 4 or 12 times, one of
\* which may be the word "constructor".
RepetitiveTexts ==
    LET plain == {RepeatedTokens(k, n, u) :
                     k \in 0..MaxRepeated, n \in {RepeatMin - 1, RepeatMin, 3 * RepeatMin},
                     u \in 0..2}
    IN  {[PlainText EXCEPT !.tokens = t] : t \in plain}
        \cup {[PlainText EXCEPT !.tokens = AboutConstructors(t)] : t \in plain}

\* The arguments of the direct calls: every combination on three texts, and
\* the repetitive texts with the other arguments fixed.
RubricArgs ==
    [text : {PlainText, RichText, MissingText},
     lang : {"fr", "de"},
     ltMatches : {None} \cup {Some(Findings(g, s)) : g \in 0..MaxFindings, s \in 0..MaxFindings},
     expectedAnswer : BOOLEAN,
     weights : RubricWeightProfiles,
     up : BOOLEAN]
    \cup
    [text : RepetitiveTexts,
     lang : {"fr"},
     ltMatches : {Some(<< >>)},
     expectedAnswer : {FALSE},
     weights : {DefaultRubric.writing_default.weights},
     up : {TRUE}]

InitRubric ==
    /\ env \in [emb : BOOLEAN, hf : {FALSE}]
    /\ rubricCfg = DefaultRubric
    /\ req = [r \in Reqs |-> NoBody]
    /\ hpc = [r \in Reqs |-> "off"]
    /\ loc = [r \in Reqs |-> NoLoc]
    /\ resp = [r \in Reqs |-> << >>]
    /\ replies = [r \in Reqs |-> NoReplies]
    /\ menu = FullMenu
    /\ rub \in {[NoRubricCall EXCEPT !.pc = "idle", !.args = a] : a \in RubricArgs}

\* semanticSimilarity posts to the embeddings service only with an expected
\* answer, a non-empty text and EMB_BASE_URL set; otherwise it returns 0.
NeedsEmbPost(a) == a.expectedAnswer /\ a.text.ok /\ env.emb

\* The result of the call once semanticSimilarity has resolved with sem.
RubricResult(a, sem) ==
    RubricAggregate(a.text, a.lang, MatchesOrEmpty(a.ltMatches), a.expectedAnswer,
                    [weights |-> a.weights], sem, a.up)

RubricStep(nx) ==
    /\ rub' = nx
    /\ UNCHANGED <<env, rubricCfg, req, hpc, loc, resp, replies, menu>>
    /\ UNCHANGED evalVars

\* rubricAggregate is called: the grammar and spelling scores are computed,
\* then semanticSimilarity is awaited.
RubricCall ==
    /\ rub.pc = "idle"
    /\ LET gs == Some(GrammarSpellingScores(MatchesOrEmpty(rub.args.ltMatches)))
       IN  IF NeedsEmbPost(rub.args)
           THEN RubricStep([rub EXCEPT !.pc = "awaitEmb", !.gs = gs])
           ELSE RubricStep([rub EXCEPT !.pc = "done", !.gs = gs, !.outcome = "resolved",
                                       !.value = Some(RubricResult(rub.args, 0))])

\* The embeddings service answers.
RubricEmbReturns ==
    /\ rub.pc = "awaitEmb"
    /\ \E rp \in SemReplies :
        RubricStep([rub EXCEPT !.pc = "done", !.reply = rp, !.outcome = "resolved",
                               !.value = Some(RubricResult(rub.args, SemanticSimilarity(rp)))])

\* The embeddings service is unavailable: axios.post rejects, semanticSimilarity
\* has no catch and rubricAggregate rejects.
RubricEmbFails ==
    /\ rub.pc = "awaitEmb"
    /\ RubricStep([rub EXCEPT !.pc = "done", !.outcome = "rejected"])

----------------------------------------------------------------------------
(* Several requests in flight. *)

\* A small menu for requests handled concurrently: a request that goes
\* through every external call, one that needs LanguageTool only, and one
\* without text.
ConcurrentBodies ==
    {[text |-> RichText, expectedAnswer |-> TRUE, expectedLang |-> "", eval |-> "keywords"],
     [text |-> PlainText, expectedAnswer |-> FALSE, expectedLang |-> "fr", eval |-> "none"],
     NoBody}

ConcurrentMenu ==
    [bodies |-> ConcurrentBodies, langs |-> {"en"}, matches |-> {<< >>, <<Grammar>>},
     sem |-> {None, Some(80)}, fp |-> {TRUE}, has429 |-> {FALSE}]

\* Every connection sends a request; the requests are handled interleaved at
\* their awaited calls.
InitConcurrent ==
    /\ env = [emb |-> TRUE, hf |-> TRUE]
    /\ rubricCfg = DefaultRubric
    /\ req = [r \in Reqs |-> NoBody]
    /\ hpc = [r \in Reqs |-> "idle"]
    /\ loc = [r \in Reqs |-> NoLoc]
    /\ resp = [r \in Reqs |-> << >>]
    /\ replies = [r \in Reqs |-> NoReplies]
    /\ menu = ConcurrentMenu
    /\ rub = NoRubricCall

\* The menu for requests followed to their response: the requests of the
\* concurrent menu and one whose eval configuration evaluateAnswer rejects.
SettlingMenu ==
    [bodies |-> ConcurrentBodies
                \cup {[text |-> PlainText, expectedAnswer |-> TRUE, expectedLang |-> "",
                       eval |-> "badRegex"]},
     langs |-> {"en", "und"}, matches |-> {<< >>, <<Grammar>>},
     sem |-> {None, Some(80)}, fp |-> {TRUE}, has429 |-> BOOLEAN]

\* One client sends a request, under every configuration of the services.
InitSettling ==
    /\ env \in [emb : BOOLEAN, hf : BOOLEAN]
    /\ rubricCfg = DefaultRubric
    /\ req = [r \in Reqs |-> NoBody]
    /\ hpc = [r \in Reqs |-> IF r = 1 THEN "idle" ELSE "off"]
    /\ loc = [r \in Reqs |-> NoLoc]
    /\ resp = [r \in Reqs |-> << >>]
    /\ replies = [r \in Reqs |-> NoReplies]
    /\ menu = SettlingMenu
    /\ rub = NoRubricCall

----------------------------------------------------------------------------
(* The specifications. *)

Init == InitEval /\ InitNoRequests

Next ==
    \/ Call
    \/ Similarity
    \/ KeywordsAll
    \/ KeywordsAny
    \/ KeywordsBanned
    \/ Regex
    \/ RegexThrows
    \/ Length
    \/ Verb
    \/ Return

\* evaluateAnswer called directly.
Spec == Init /\ [][Next]_vars

NextHandler ==
    \E r \in Reqs :
        \/ ReceiveInvalid(r)
        \/ ReceiveValid(r)
        \/ LTReturns(r)
        \/ LTFails(r)
        \/ HFReturns(r)
        \/ EmbReturns(r)
        \/ EmbFails(r)

InitRequests == InitHandler /\ InitNoCalls

\* The server handling requests.
SpecHandler == InitRequests /\ [][NextHandler]_vars

\* Every awaited external call settles: it returns or it fails (the calls
\* are made with a timeout).
ExternalCallsSettle ==
    \A r \in Reqs :
        /\ WF_vars(LTReturns(r) \/ LTFails(r))
        /\ WF_vars(HFReturns(r))
        /\ WF_vars(EmbReturns(r) \/ EmbFails(r))

InitSettlingRequests == InitSettling /\ InitNoCalls

\* The server handling requests whose external calls all settle.
SpecHandlerFair == InitSettlingRequests /\ [][NextHandler]_vars /\ ExternalCallsSettle

InitConcurrentRequests == InitConcurrent /\ InitNoCalls

\* The server handling several requests at once.
SpecConcurrent == InitConcurrentRequests /\ [][NextHandler]_vars

NextRubric ==
    \/ RubricCall
    \/ RubricEmbReturns
    \/ RubricEmbFails

InitRubricCalls == InitRubric /\ InitNoCalls

\* rubricAggregate called directly.
SpecRubric == InitRubricCalls /\ [][NextRubric]_vars

----------------------------------------------------------------------------
(* Properties of evaluateAnswer. *)

Returned == pc = "done" /\ outcome = "returned"

\* The points accumulated when the banned rule starts.
PointsBeforeBanned ==
    AnyRule(AllRule(SimilarityRule(EmptyFrame, cfg, txt), cfg, txt), cfg, txt).points

\* C1: for every text, configuration (any active rules, any non-negative
\* weights) and language, the contentScore returned is an integer in 0..100.
C1_ContentScoreRange == Returned => result.contentScore \in 0..100

\* A call returned a score strictly inside the range, under weights whose
\* sum exceeds 100 and with the banned penalty applied.
C1_Witness ==
    /\ Returned
    /\ result.contentScore \in 1..99
    /\ cfg.weights = DefaultWeights
    /\ cfg.keywords.banned > 0 /\ txt.found.banned > 0
    /\ maxPoints > 100

\* C2: the running total is never below 0 after any rule step, and when the
\* banned rule fires the penalty is min(points so far, weights.penaltyBanned).
C2_PointsNeverNegative ==
    /\ points >= 0
    /\ (pc = "regex" /\ cfg.keywords.banned > 0 /\ txt.found.banned > 0) =>
          /\ reasons[Len(reasons)].penalty = Min(PointsBeforeBanned, cfg.weights.penaltyBanned)
          /\ points = PointsBeforeBanned - reasons[Len(reasons)].penalty

\* The banned rule fired with fewer points accumulated than the penalty.
C2_Witness ==
    /\ pc = "regex"
    /\ cfg.keywords.banned > 0 /\ txt.found.banned > 0
    /\ PointsBeforeBanned > 0
    /\ PointsBeforeBanned < cfg.weights.penaltyBanned
    /\ points = 0

\* C5: with expectedAnswer set, isCorrect is (similarity >= threshold),
\* whatever the keyword, regex, length and verb rules found.
C5_VerdictFromSimilarity ==
    (Returned /\ cfg.expectedAnswer) =>
        result.isCorrect = (txt.sim >= cfg.similarityThreshold)

\* Correct by similarity although a required keyword is missing, a banned one
\* is present and the regex rule failed.
C5_Witness ==
    /\ Returned /\ cfg.expectedAnswer
    /\ result.isCorrect
    /\ cfg.keywords.all > 0 /\ txt.found.all < cfg.keywords.all
    /\ cfg.keywords.banned > 0 /\ txt.found.banned > 0
    /\ cfg.regex = <<StrNoMatch>>

\* The points a rule was awarded in the value returned; 0 when it has no record.
Awarded(name) ==
    LET r == FindReason(result.reasons, name)
    IN  IF r = {} THEN 0 ELSE (CHOOSE x \in r : TRUE).points

\* C6: without expectedAnswer, isCorrect is true exactly when the required
\* rule is inactive or found every keyword, the optional rule is inactive or
\* was awarded points > 0, the banned rule is inactive or found nothing, and
\* the regex rule is inactive or was awarded points > 0; length and verb
\* play no part.
C6_VerdictFromRules ==
    (Returned /\ ~cfg.expectedAnswer) =>
        result.isCorrect =
            (/\ cfg.keywords.all = 0 \/ txt.found.all = cfg.keywords.all
             /\ cfg.keywords.any = 0 \/ Awarded("keywords_any") > 0
             /\ cfg.keywords.banned = 0 \/ txt.found.banned = 0
             /\ Len(cfg.regex) = 0 \/ Awarded("regex") > 0)

\* Correct with the four rules active and satisfied while the length and
\* verb rules both failed.
C6_Witness ==
    /\ Returned /\ ~cfg.expectedAnswer
    /\ result.isCorrect
    /\ cfg.keywords.all > 0 /\ cfg.keywords.any > 0 /\ cfg.keywords.banned > 0
    /\ Len(cfg.regex) > 0
    /\ Awarded("length") = 0 /\ cfg.minWords # 0
    /\ cfg.requireVerb /\ ~txt.hasVerb

NoRuleActive(c) ==
    /\ ~c.expectedAnswer
    /\ c.keywords.all = 0 /\ c.keywords.any = 0 /\ c.keywords.banned = 0
    /\ Len(c.regex) = 0
    /\ c.minWords = 0 /\ c.maxWords = 0
    /\ ~c.requireVerb

\* C7: with no rule active, contentScore = 0 and reasons is empty, for every
\* text and language.
C7_NoRuleScoresZero ==
    (Returned /\ NoRuleActive(cfg)) =>
        result.contentScore = 0 /\ result.reasons = << >>

\* The empty configuration was evaluated on a text with words and a verb.
C7_Witness ==
    /\ Returned /\ NoRuleActive(cfg)
    /\ txt.wordCount > 0 /\ txt.hasVerb /\ txt.sim = 100

\* C8: with everything else fixed, a larger found count of the required
\* keywords never gives a smaller contentScore.
C8_AllMonotone ==
    Returned =>
        \A g \in (txt.found.all + 1)..cfg.keywords.all :
            EvaluateAnswer(cfg, [txt EXCEPT !.found.all = g], atCall).value.contentScore
                >= result.contentScore

\* A returned evaluation with a required keyword missing and a banned one
\* found, whose score is strictly below the score with every keyword found.
C8_Witness ==
    /\ Returned
    /\ txt.found.all < cfg.keywords.all
    /\ cfg.keywords.banned > 0 /\ txt.found.banned > 0
    /\ EvaluateAnswer(cfg, [txt EXCEPT !.found.all = cfg.keywords.all], atCall)
           .value.contentScore > result.contentScore
    /\ result.contentScore > 0

\* C9: two calls in a row with the same text, the same configuration object
\* and the same language end the same way with the same contentScore,
\* isCorrect and reasons.
C9_Idempotent ==
    \A i, j \in 1..Len(results) : results[i] = results[j]

\* The entries of cfg.regex that the running call reaches and finds malformed:
\* every entry before them matched when it was tested.
ReachedMalformed ==
    {i \in 1..Len(cfg.regex) :
        /\ CompileThrows(cfg.regex[i])
        /\ \A j \in 1..(i - 1) :
              /\ ~CompileThrows(cfg.regex[j])
              /\ RegexTest(cfg.regex[j], atCall[j]).match}

\* C10 as stated: whenever the regex list holds a malformed pattern the call
\* ends in an error.
C10_AnyMalformedThrows ==
    (pc = "done" /\ \E i \in 1..Len(cfg.regex) : CompileThrows(cfg.regex[i])) =>
        outcome = "threw"

\* C10 amended: the call ends in an error exactly when the loop reaches a
\* malformed pattern, that is when every entry before it matches; a pattern
\* that fails to match before it ends the loop and the call returns.
C10_ReachedMalformedThrows ==
    pc = "done" => (outcome = "threw" <=> ReachedMalformed # {})

\* The call threw on a malformed pattern standing after a matching one.
C10_Witness ==
    /\ pc = "done" /\ outcome = "threw"
    /\ Len(cfg.regex) > 1
    /\ ~CompileThrows(cfg.regex[1])
    /\ CompileThrows(cfg.regex[2])

\* C11: whenever the banned list is non-empty, reasons hold a keywords_banned
\* record carrying both the found count and the exact penalty applied; with
\* found = 0 the record is there and its penalty is 0, not left out.
C11_BannedRecordCarriesPenalty ==
    (Returned /\ cfg.keywords.banned > 0) =>
        \E i \in 1..Len(result.reasons) :
            LET r == result.reasons[i]
            IN  /\ r.rule = "keywords_banned"
                /\ {"found", "penalty"} \subseteq DOMAIN r
                /\ r.found = txt.found.banned
                /\ r.penalty = IF txt.found.banned = 0 THEN 0
                               ELSE Min(PointsBeforeBanned, cfg.weights.penaltyBanned)

\* The rules in the order of evaluation.
RuleOrder ==
    <<"similarity", "keywords_all", "keywords_any", "keywords_banned",
      "regex", "length", "requireVerb">>

RuleActive(c, name) ==
    CASE name = "similarity"      -> c.expectedAnswer
      [] name = "keywords_all"    -> c.keywords.all > 0
      [] name = "keywords_any"    -> c.keywords.any > 0
      [] name = "keywords_banned" -> c.keywords.banned > 0
      [] name = "regex"           -> Len(c.regex) > 0
      [] name = "length"          -> c.minWords # 0 \/ c.maxWords # 0
      [] name = "requireVerb"     -> c.requireVerb

\* How many rules of RuleOrder the running call has gone through.
RulesDone ==
    CASE pc = "idle"       -> 0
      [] pc = "similarity" -> 0
      [] pc = "all"        -> 1
      [] pc = "any"        -> 2
      [] pc = "banned"     -> 3
      [] pc = "regex"      -> 4
      [] pc = "length"     -> 5
      [] pc = "verb"       -> 6
      [] pc = "score"      -> 7
      [] pc = "done"       -> IF outcome = "threw" THEN 4 ELSE 7

RuleNames(rs) == [i \in 1..Len(rs) |-> rs[i].rule]

\* The records due so far: one per active rule gone through, in rule order.
RecordsDue ==
    SelectSeq(SubSeq(RuleOrder, 1, RulesDone), LAMBDA n : RuleActive(cfg, n))

\* C12: reasons hold exactly one record per active rule and none for an
\* inactive one, in the order similarity, keywords_all, keywords_any,
\* keywords_banned, regex, length, requireVerb; during an evaluation records
\* are only appended, never removed or reordered.
C12_ReasonsInRuleOrder ==
    /\ [](/\ RuleNames(reasons) = RecordsDue
          /\ Returned => result.reasons = reasons)
    /\ [][pc' # "similarity" =>
            /\ Len(reasons') >= Len(reasons)
            /\ SubSeq(reasons', 1, Len(reasons)) = reasons]_vars

\* A call returned with the seven rules active.
C12_Witness ==
    /\ Returned
    /\ \A i \in 1..Len(RuleOrder) : RuleActive(cfg, RuleOrder[i])
    /\ RuleNames(result.reasons) = RuleOrder

\* The weight a rule adds to the denominator.
RuleWeight(c, name) ==
    CASE name = "similarity"      -> c.weights.similarity
      [] name = "keywords_all"    -> c.weights.all
      [] name = "keywords_any"    -> c.weights.any
      [] name = "keywords_banned" -> 0
      [] name = "regex"           -> c.weights.regex
      [] name = "length"          -> c.weights.length
      [] name = "requireVerb"     -> c.weights.verb

RECURSIVE SumWeights(_, _)
SumWeights(c, names) ==
    IF names = << >> THEN 0
    ELSE RuleWeight(c, Head(names)) + SumWeights(c, Tail(names))

FirstNonMatching ==
    LET n  == Len(cfg.regex)
        no == {i \in 1..n : cfg.regex[i].hits = {}}
    IN  IF no = {} THEN n + 1 ELSE MinOf(no)

\* C20: the regex rule tests the patterns in list order and stops at the
\* first one that does not match the text: nothing after it is compiled or
\* tested; the rule awards the full regex weight when every pattern matches
\* the text and 0 otherwise.
C20_RegexShortCircuit ==
    (pc = "length" /\ Len(cfg.regex) > 0) =>
        LET loop == RegexLoop(1, atCall, cfg)
            rec  == reasons[Len(reasons)]
        IN  /\ loop.tested = Min(FirstNonMatching, Len(cfg.regex))
            /\ rec.rule = "regex"
            /\ rec.ok = (FirstNonMatching > Len(cfg.regex))
            /\ rec.points = IF FirstNonMatching > Len(cfg.regex)
                            THEN cfg.weights.regex ELSE 0

----------------------------------------------------------------------------
(* Properties of the handler and of rubricAggregate. *)

Answered(r) == hpc[r] = "done" /\ Len(resp[r]) > 0

\* C3: with an expected answer and the embeddings service configured but
\* unavailable, rubricAggregate still resolves with a complete result whose
\* content pillar is 0 (details.semantic 0 or null); it does not reject.
C3_RubricSurvivesOutage ==
    \A r \in Reqs :
        (hpc[r] = "done" /\ req[r].expectedAnswer /\ env.emb /\ loc[r].emb = "failed") =>
            /\ loc[r].rubric = "resolved"
            /\ resp[r][1].status = 200
            /\ resp[r][1].rubric.breakdown.content = 0
            /\ resp[r][1].rubric.details.semantic = 0

\* A request whose text is a string and whose eval configuration, if any,
\* evaluateAnswer accepts.
ValidRequest(b) == b.text.ok /\ ContentEval(b).outcome = "returned"

\* C4: when the LanguageTool call fails for a valid request, the handler
\* goes on with no findings and an error marker: the answer is a success
\* response with details.ltError set, no issue from a grammar finding and
\* grammarScore = spellingScore = 100, never a 500/503 error response.
C4_LTFailureRecovered ==
    \A r \in Reqs :
        (Answered(r) /\ ValidRequest(req[r]) /\ loc[r].ltData.error) =>
            /\ Len(resp[r]) = 1
            /\ resp[r][1].status = 200
            /\ resp[r][1].details.ltError
            /\ \A i \in 1..Len(resp[r][1].issues) : resp[r][1].issues[i] = "language"
            /\ resp[r][1].grammarScore = 100
            /\ resp[r][1].spellingScore = 100

\* The findings list a direct call of rubricAggregate scores.
ScoredFindings == MatchesOrEmpty(rub.args.ltMatches)

\* How many findings fall in the spelling category, how many in the grammar one.
SpellingCount ==
    Cardinality({i \in 1..Len(ScoredFindings) :
        \/ ScoredFindings[i].issueType \in {"misspelling", "typographical"}
        \/ ScoredFindings[i].idSpelling})

GrammarCount == Len(ScoredFindings) - SpellingCount

\* C14: grammarSpellingScores gives, for each category on its own,
\* max(0, 100 - errorCount * pointsPerError): both scores are in 0..100, and
\* an empty or absent findings list gives 100 and 100.
C14_GrammarSpellingScores ==
    \A gs \in rub.gs :
        /\ gs.grammarScore = Max(0, 100 - GrammarCount * GrammarPtsPerError)
        /\ gs.spellingScore = Max(0, 100 - SpellingCount * SpellingPtsPerError)
        /\ gs.grammarScore \in 0..100
        /\ gs.spellingScore \in 0..100
        /\ Len(ScoredFindings) = 0 => gs.grammarScore = 100 /\ gs.spellingScore = 100

\* Findings scored with the grammar penalty beyond 100 points (score floored
\* at 0) while the spelling score is strictly inside the range.
C14_Witness ==
    \E gs \in rub.gs :
        /\ GrammarCount * GrammarPtsPerError > 100
        /\ gs.grammarScore = 0
        /\ gs.spellingScore \in 1..99

\* The result of a direct call of rubricAggregate that resolved.
Resolved == IF rub.outcome = "resolved" THEN rub.value ELSE {}

WeightedTotal(v, w) ==
    v.breakdown.content * w.content + v.breakdown.organization * w.organization
    + v.breakdown.lexis * w.lexis + v.breakdown.grammar * w.grammar
    + v.breakdown.mechanics * w.mechanics

WeightSum(w) == w.content + w.organization + w.lexis + w.grammar + w.mechanics

\* C16: overall is the sum over the five pillars of score * weight / 100
\* rounded to an integer (a nearest integer of that sum), the weights taken
\* as they are; every pillar is in 0..100, so overall lies between 0 and the
\* sum of the weights, in 0..100 when they sum to 100.
C16_OverallWeightedSum ==
    \A v \in Resolved :
        LET w == rub.args.weights
        IN  /\ \A p \in DOMAIN v.breakdown : v.breakdown[p] \in 0..100
            /\ 100 * v.overall - WeightedTotal(v, w) \in -50..50
            /\ v.overall \in 0..WeightSum(w)
            /\ WeightSum(w) = 100 => v.overall \in 0..100

\* A result under weights summing to 250: overall is above 100, and the
\* total fell on an exact half that the doubles rounded down.
C16_Witness ==
    \E v \in Resolved :
        /\ WeightSum(rub.args.weights) > 100
        /\ v.overall > 100
        /\ 100 * v.overall - WeightedTotal(v, rub.args.weights) = -50

\* C17: the issues of a success response start with an issue of type
\* "language" exactly when expectedLang is given and differs from the
\* detected language; no language issue stands anywhere else in the list.
C17_LanguageIssueFirst ==
    \A r \in Reqs :
        (Answered(r) /\ resp[r][1].status = 200) =>
            LET issues == resp[r][1].issues
            IN  /\ (Len(issues) > 0 /\ issues[1] = "language") <=>
                       (req[r].expectedLang # "" /\ req[r].expectedLang # replies[r].lang)
                /\ \A i \in 2..Len(issues) : issues[i] # "language"

\* A text detected as English answered a request expecting French, with
\* LanguageTool findings listed after the language issue.
C17_Witness ==
    \E r \in Reqs :
        /\ Answered(r) /\ resp[r][1].status = 200
        /\ req[r].expectedLang = "fr" /\ replies[r].lang = "en"
        /\ Len(resp[r][1].issues) = 3
        /\ resp[r][1].issues[1] = "language"

\* The response the handler gives to a request processed alone, from the
\* request and the replies its own external calls received.
AloneResponse(body, rp) ==
    LET lt == IF rp.lt.state = "failed"
              THEN [matches |-> << >>, error |-> TRUE]
              ELSE [matches |-> rp.lt.matches, error |-> FALSE]
        ce == ContentEval(body)
        l  == [lang |-> rp.lang, fpUp |-> rp.fpUp, ltData |-> lt,
               semanticScore |-> IF body.expectedAnswer /\ env.hf THEN rp.hf.score ELSE None,
               contentEval |-> ce.value,
               emb |-> IF rp.emb.state = "ok" THEN "ok" ELSE "notCalled",
               rubric |-> "resolved"]
    IN  IF ~body.text.ok THEN [status |-> 400, error |-> "text_required"]
        ELSE IF ce.outcome = "threw" THEN ErrorResponse(FALSE)
        ELSE IF body.expectedAnswer /\ env.emb /\ rp.emb.state = "failed"
             THEN ErrorResponse(rp.emb.has429)
        ELSE SuccessResponse(body, l,
                 RubricAggregate(body.text, LangOf(body, l), lt.matches, body.expectedAnswer,
                                 DefaultRubric.writing_default,
                                 IF body.expectedAnswer /\ env.emb
                                 THEN SemanticSimilarity(rp.emb.reply) ELSE 0,
                                 rp.fpUp))

\* C18: with several requests handled concurrently, interleaved at their
\* awaited calls in any order, each request gets the response it would get
\* alone with the same replies of the collaborators, and no request modifies
\* the rubric configuration.
C18_RequestsIndependent ==
    /\ rubricCfg = DefaultRubric
    /\ \A r \in Reqs :
          IF hpc[r] = "done"
          THEN resp[r] = <<AloneResponse(req[r], replies[r])>>
          ELSE resp[r] = << >>

\* Two requests in flight together: the first is answered while the second,
\* received before that and given other LanguageTool findings, still waits
\* for the embeddings service.
C18_Witness ==
    \E r, q \in Reqs :
        /\ r # q
        /\ hpc[r] = "done" /\ resp[r][1].status = 200 /\ req[r].expectedAnswer
        /\ hpc[q] = "awaitEmb"
        /\ replies[r].lt.matches # replies[q].lt.matches
        /\ replies[r].hf.score # replies[q].hf.score

\* C19: when LanguageTool rate-limits the grammar check (429) the handler
\* answers 503 with the hint to configure LT_BASE_URL; any other failure
\* that reaches the outer catch is answered 500.
C19_RateLimitAnswered503 ==
    \A r \in Reqs :
        Answered(r) =>
            /\ (replies[r].lt.state = "failed" /\ replies[r].lt.has429) =>
                   resp[r][1].status = 503 /\ resp[r][1].hint
            /\ (resp[r][1].status \in {500, 503}
                    /\ ~(replies[r].lt.state = "failed" /\ replies[r].lt.has429)) =>
                   resp[r][1].status = 500

\* The words of the text a direct call of rubricAggregate scores.
ScoredTokens == rub.args.text.tokens

\* The distinct words occurring at least 4 times in that text.
RepeatedWords ==
    {w \in {ScoredTokens[i] : i \in 1..Len(ScoredTokens)} :
        Cardinality({i \in 1..Len(ScoredTokens) : ScoredTokens[i] = w}) >= 4}

\* C21: for every token sequence the repetition penalty of lexisMetrics is
\* min(40, repeatedCount * 10), repeatedCount being the number of distinct
\* tokens occurring at least 4 times, although the code takes it from
\* repeatedTop cut to 5 entries; repeatedTop never holds more than 5 entries
\* and lexisScore = max(0, ttrScore - penalty) is in 0..100.
C21_RepetitionPenalty ==
    \A v \in Resolved :
        LET lex == v.details.lexis
        IN  /\ lex.lexisScore =
                  Max(0, lex.ttrScore - Min(40, Cardinality(RepeatedWords) * 10))
            /\ Len(lex.repeatedTop) <= 5
            /\ \A i \in 1..Len(lex.repeatedTop) : lex.repeatedTop[i] \in RepeatedWords
            /\ lex.lexisScore \in 0..100

\* C22: every finding is classified as spelling or as grammar, never both
\* and never neither: grammarErr + spellingErr is the number of findings.
C22_EveryFindingCounted ==
    \A gs \in rub.gs :
        /\ gs.grammarErr + gs.spellingErr = Len(ScoredFindings)
        /\ gs.spellingErr = SpellingCount
        /\ gs.grammarErr >= 0

\* A list with findings of every kind was counted: grammar, style (no
\* spelling type), misspelling, typographical and a spelling rule id.
C22_Witness ==
    \E gs \in rub.gs :
        /\ {ScoredFindings[i] : i \in 1..Len(ScoredFindings)} =
              {Grammar, Style, Misspelling, Typographical, SpellingRule}
        /\ gs.grammarErr > 1 /\ gs.spellingErr > 2

Awaiting(r) == hpc[r] \in {"awaitLT", "awaitHF", "awaitEmb"}

\* The response due to a request, by how its pipeline went.
SingleResponse(r) ==
    /\ Len(resp[r]) <= 1
    /\ Len(resp[r]) = 1 <=> hpc[r] = "done"
    /\ hpc[r] = "done" =>
          LET status == resp[r][1].status
          IN  IF ~req[r].text.ok
              THEN status = 400 /\ replies[r] = NoReplies
              ELSE IF ContentEval(req[r]).outcome = "threw" \/ replies[r].emb.state = "failed"
                   THEN status \in {500, 503}
                   ELSE status = 200

\* C23: a request whose external calls each return or fail gets exactly one
\* response, never two: 400 when text is missing or not a string, before any
\* external call; a success response when the pipeline completes; 500 or 503
\* when an error escapes it.
C23_ExactlyOneResponse ==
    /\ [](\A r \in Reqs : SingleResponse(r))
    /\ \A r \in Reqs : Awaiting(r) ~> (hpc[r] = "done" /\ Len(resp[r]) = 1)

\* A request went through the three external calls and got its one response.
C23_Witness ==
    \E r \in Reqs :
        /\ hpc[r] = "done" /\ Len(resp[r]) = 1
        /\ replies[r].lt.state = "failed"
        /\ replies[r].hf.state = "replied"
        /\ replies[r].emb.state = "ok"
        /\ resp[r][1].status = 200

\* C24: for a configuration with no active rule and no expectedAnswer (an
\* empty eval object) evaluateAnswer returns isCorrect = true with
\* contentScore = 0; a request without any eval configuration is reported
\* with isCorrect = false.
C24_EmptyEvalIsCorrect ==
    \A r \in Reqs :
        (Answered(r) /\ resp[r][1].status = 200) =>
            LET content == resp[r][1].content
            IN  /\ (req[r].eval # "none" /\ NoRuleActive(EvalCfgOf(req[r].eval))) =>
                       content.isCorrect /\ content.contentScore = 0
                /\ req[r].eval = "none" =>
                       ~content.isCorrect /\ content.contentScore = 0

\* A request with eval: {} was answered correct with a content score of 0.
C24_Witness ==
    \E r \in Reqs :
        /\ Answered(r) /\ resp[r][1].status = 200
        /\ req[r].eval = "empty"
        /\ resp[r][1].content.isCorrect
        /\ resp[r][1].content.contentScore = 0
        /\ resp[r][1].content.reasons = << >>

====
